---- MODULE Spec2Model ----
(***************************************************************************)
(* Model of opencompass/runners/base.py: BaseRunner.__init__, __call__,    *)
(* the abstract launch and summarize.                                      *)
(*                                                                         *)
(* Python values: None is the empty tuple <<>> and a present value x is    *)
(* <<x>>.  A formatted string is the sequence of its pieces (literal       *)
(* fragments and formatted fields), so that a message can be taken apart   *)
(* again.  The literal fragments of the report are non-ASCII in the source *)
(* and are rendered here by ASCII text of the same meaning.                *)
(***************************************************************************)
EXTENDS Integers, Sequences, FiniteSets, TLC

\* ---------------------------------------------------------------- bounds
MaxLen == 3
MaxTasks == 2

\* ------------------------------------------------------- input universes
Names == {"t1", "t2"}
Codes == {-1, 0, 137}
Users == {"alice"}
TaskTypes == {"OpenICLInferTask"}
Urls == {<<>>, <<"">>, <<"https://lark/hook">>}
PostOutcomes == {"ok", "raise"}

None == <<>>
Some(x) == <<x>>

RECURSIVE SeqsUpTo(_, _)
SeqsUpTo(S, n) ==
    IF n = 0 THEN {<<>>}
    ELSE LET shorter == SeqsUpTo(S, n - 1)
         IN shorter \cup {Append(s, x) : s \in shorter, x \in S}

TaskLists == SeqsUpTo(Names, MaxTasks)
StatusLists == SeqsUpTo(Names \X Codes, MaxLen)

VARIABLES
    task_cfg,       \* self.task_cfg
    debug,          \* self.debug
    lark_bot_url,   \* the constructor's argument
    lark_reporter,  \* self.lark_reporter: None or the reporter bound to a url
    user,           \* what getpass.getuser() returns on this host
    pc,             \* where the caller of __call__ stands
    tasks,          \* the argument of __call__
    status,         \* what launch returned: None or <<list>>
    cur,            \* the effects of the latest summarize call: None or <<record>>
    prev,           \* the effects of the summarize call before it, same list
    events          \* what has happened in the run so far, in order

vars == <<task_cfg, debug, lark_bot_url, lark_reporter, user, pc, tasks,
          status, cur, prev, events>>

config == <<task_cfg, debug, lark_bot_url, lark_reporter>>

\* ------------------------------------------------------------- __init__
Truthy(opt) == opt # None /\ opt[1] # ""

InitReporterAlways(url) == Some(url)
InitReporter(url) == IF Truthy(url) THEN Some(url) ELSE None

Init ==
    /\ \E ty \in TaskTypes : task_cfg = [type |-> ty]
    /\ debug \in BOOLEAN
    /\ lark_bot_url \in Urls
    /\ lark_reporter = InitReporter(lark_bot_url)
    /\ user \in Users
    /\ pc = "idle"
    /\ tasks = <<>>
    /\ status = None
    /\ cur = None
    /\ prev = None
    /\ events = <<>>

\* ------------------------------------------------------------ summarize
IsFailedPositive(code) == code > 0
IsFailed(code) == code # 0

ErrorMsgNoCode(task, code) == <<task, " failed with code ">>
ErrorMsg(task, code) == <<task, " failed with code ", ToString(code)>>

LogError(msg) == [level |-> "error", msg |-> msg]

InitFailedLogsStale(old) == old
InitFailedLogs(old) == <<>>

RECURSIVE Loop(_, _)
Loop(rest, acc) ==
    IF rest = <<>> THEN acc
    ELSE LET _task == Head(rest)[1]
             code == Head(rest)[2]
         IN Loop(Tail(rest),
                 IF IsFailed(code)
                 THEN [log |-> Append(acc.log, LogError(ErrorMsg(_task, code))),
                       failed_logs |-> Append(acc.failed_logs, _task)]
                 ELSE acc)

RECURSIVE Join(_, _)
Join(sep, strs) ==
    IF strs = <<>> THEN <<>>
    ELSE IF Len(strs) = 1 THEN <<strs[1]>>
    ELSE <<strs[1], sep>> \o Join(sep, Tail(strs))

NumSucceeded(st, failed_logs) == Len(st) - Len(failed_logs)

FailTitle(failed_logs) ==
    <<"Bad news: you have ", ToString(Len(failed_logs)), " tasks blown up">>

FailContentFirstOnly(u, cfg, num_succeeded, failed_logs) ==
    <<u, " 's ", cfg.type, " tasks finished, ",
      "succeeded ", ToString(num_succeeded), " , ",
      "failed ", ToString(Len(failed_logs)), " . Failed task list:">>
    \o <<"\n">> \o <<failed_logs[1]>>
FailContent(u, cfg, num_succeeded, failed_logs) ==
    <<u, " 's ", cfg.type, " tasks finished, ",
      "succeeded ", ToString(num_succeeded), " , ",
      "failed ", ToString(Len(failed_logs)), " . Failed task list:">>
    \o <<"\n">> \o Join("\n", failed_logs)

SuccTitle == <<"Good news: all tasks finished">>

SuccContent(u, cfg, num_succeeded) ==
    <<u, " 's ", cfg.type, " tasks finished, ",
      "succeeded ", ToString(num_succeeded), " .">>

HasFailuresAlways(failed_logs) == Len(failed_logs) >= 0
HasFailures(failed_logs) == Len(failed_logs) > 0

Message(u, cfg, st, failed_logs) ==
    LET num_succeeded == NumSucceeded(st, failed_logs)
    IN IF HasFailures(failed_logs)
       THEN [title |-> FailTitle(failed_logs),
             content |-> FailContent(u, cfg, num_succeeded, failed_logs)]
       ELSE [title |-> SuccTitle,
             content |-> SuccContent(u, cfg, num_succeeded)]

\* An error raised by post inside summarize: no try statement encloses the
\* two calls, so the error leaves summarize.
Propagates(post_raised) == post_raised

\* The effects of one call summarize(st): the log entries written, the
\* locals at the end of the call, the post requests made, whether post
\* raised (outcome is how the reporter's post ended) and whether the call
\* raised.
SummarizeEffects(reporter, u, cfg, st, old, outcome) ==
    LET loop == Loop(st, [log |-> <<>>, failed_logs |-> InitFailedLogs(old)])
        failed_logs == loop.failed_logs
        posts == IF reporter # None
                 THEN <<Message(u, cfg, st, failed_logs)>>
                 ELSE <<>>
    IN [status |-> st,
        log |-> loop.log,
        failed_logs |-> failed_logs,
        num_succeeded |-> IF reporter # None
                          THEN Some(NumSucceeded(st, failed_logs))
                          ELSE None,
        posts |-> posts,
        post_raised |-> posts # <<>> /\ outcome = "raise",
        raised |-> Propagates(posts # <<>> /\ outcome = "raise")]

Ev(e, arg) == [e |-> e, arg |-> arg]

MapEv(e, s) == [i \in 1..Len(s) |-> Ev(e, s[i])]

SummarizeEventsPostFirst(eff) ==
    <<Ev("summarize", eff.status)>>
    \o MapEv("post", eff.posts)
    \o MapEv("log", eff.log)
    \o <<Ev(IF eff.raised THEN "raise" ELSE "return", <<>>)>>
SummarizeEvents(eff) ==
    <<Ev("summarize", eff.status)>>
    \o MapEv("log", eff.log)
    \o MapEv("post", eff.posts)
    \o <<Ev(IF eff.raised THEN "raise" ELSE "return", <<>>)>>

OldFailedLogs == IF cur = None THEN <<>> ELSE cur[1].failed_logs

\* -------------------------------------------------------------- actions
\* __call__ is entered and calls self.launch(tasks).
CallLaunch ==
    /\ pc = "idle"
    /\ \E ts \in TaskLists :
          /\ tasks' = ts
          /\ events' = <<Ev("launch", ts)>>
    /\ pc' = "launching"
    /\ UNCHANGED <<config, user, status, cur, prev>>

LaunchRaiseCaught ==
    /\ pc = "launching"
    /\ pc' = "done"
    /\ events' = events \o <<Ev("launch_raise", <<>>), Ev("return", <<>>)>>
    /\ UNCHANGED <<config, user, tasks, status, cur, prev>>

\* launch raises: nothing in __call__ catches it.
LaunchRaise ==
    /\ pc = "launching"
    /\ pc' = "raised"
    /\ events' = events \o <<Ev("launch_raise", <<>>), Ev("raise", <<>>)>>
    /\ UNCHANGED <<config, user, tasks, status, cur, prev>>

\* launch returns a list of (task name, exit code).
LaunchReturn ==
    /\ pc = "launching"
    /\ \E st \in StatusLists :
          /\ status' = Some(st)
          /\ events' = events \o <<Ev("launch_return", st)>>
    /\ pc' = "summarizing"
    /\ UNCHANGED <<config, user, tasks, cur, prev>>

\* self.summarize(status), then __call__ returns (or the error of post
\* leaves through summarize and __call__).
Summarize ==
    /\ pc = "summarizing"
    /\ \E outcome \in PostOutcomes :
          LET eff == SummarizeEffects(lark_reporter, user, task_cfg,
                                      status[1], OldFailedLogs, outcome)
          IN /\ cur' = Some(eff)
             /\ events' = events \o SummarizeEvents(eff)
             /\ pc' = IF eff.raised THEN "raised" ELSE "done"
    /\ UNCHANGED <<config, user, tasks, status, prev>>

\* After the run, the caller calls summarize once more on the same list.
SummarizeAgain ==
    /\ pc \in {"done", "raised"}
    /\ status # None
    /\ prev = None
    /\ \E outcome \in PostOutcomes :
          LET eff == SummarizeEffects(lark_reporter, user, task_cfg,
                                      status[1], OldFailedLogs, outcome)
          IN /\ cur' = Some(eff)
             /\ prev' = cur
    /\ UNCHANGED <<config, user, pc, tasks, status, events>>

Next ==
    \/ CallLaunch
    \/ LaunchRaise
    \/ LaunchReturn
    \/ Summarize
    \/ SummarizeAgain

Spec == Init /\ [][Next]_vars

\* ------------------------------------------- what the claims speak about
\* The positions of R whose exit code is nonzero, and the k-th of them.
FailedIdx(st) == {i \in 1..Len(st) : st[i][2] # 0}

KthFailed(st, k) ==
    CHOOSE i \in FailedIdx(st) : Cardinality({j \in FailedIdx(st) : j <= i}) = k

NumFailed(st) == Cardinality(FailedIdx(st))

\* The names of the failed entries of R, in the order of R.
FailedNamesOf(st) == [k \in 1..NumFailed(st) |-> st[KthFailed(st, k)][1]]

\* A body cut into its lines.
RECURSIVE Lines(_)
Lines(s) ==
    IF \A i \in 1..Len(s) : s[i] # "\n" THEN <<s>>
    ELSE LET i == CHOOSE k \in 1..Len(s) :
                     s[k] = "\n" /\ \A j \in 1..(k - 1) : s[j] # "\n"
         IN <<SubSeq(s, 1, i - 1)>> \o Lines(SubSeq(s, i + 1, Len(s)))

\* The field that follows the fragment tok in a line.
HasField(line, tok) == \E i \in 1..(Len(line) - 1) : line[i] = tok
FieldAfter(line, tok) ==
    line[(CHOOSE i \in 1..(Len(line) - 1) : line[i] = tok) + 1]

Count(s, P(_)) == Cardinality({i \in 1..Len(s) : P(s[i])})

Summarized == cur # None
R == cur[1].status
Notified == cur # None /\ cur[1].posts # <<>>
Note == cur[1].posts[1]

IsFailureNote(n) == n.title[1] = "Bad news: you have "
IsSuccessNote(n) == n.title = <<"Good news: all tasks finished">>

\* C1: whenever summarize ran on a list R with a notification target
\* configured and at least one nonzero exit code in R, exactly one
\* notification was posted and it is the failure variant: the title carries
\* the number of failed entries, the first line of the body states
\* succeeded = len(R) - failed and the failed count, and the remaining lines
\* are the names of the failed entries, one line each, in the order of R
\* (so each failed name is listed as often as it fails in R: once when the
\* names of R are distinct).
C1_FailureNotification ==
    (Summarized /\ lark_reporter # None /\ FailedIdx(R) # {}) =>
        /\ Len(cur[1].posts) = 1
        /\ IsFailureNote(Note)
        /\ ~IsSuccessNote(Note)
        /\ Note.title[2] = ToString(NumFailed(R))
        /\ LET lines == Lines(Note.content)
               head == lines[1]
           IN /\ HasField(head, "succeeded ")
              /\ FieldAfter(head, "succeeded ") = ToString(Len(R) - NumFailed(R))
              /\ HasField(head, "failed ")
              /\ FieldAfter(head, "failed ") = ToString(NumFailed(R))
              /\ Len(lines) = 1 + NumFailed(R)
              /\ \A k \in 1..NumFailed(R) :
                    lines[k + 1] = <<FailedNamesOf(R)[k]>>
              /\ \A n \in Names :
                    Count(Tail(lines), LAMBDA l : l = <<n>>)
                    = Cardinality({i \in FailedIdx(R) : R[i][1] = n})

C1_Witness ==
    /\ Summarized /\ Notified
    /\ Len(R) = 3
    /\ FailedIdx(R) = {1, 3}
    /\ R[1][1] # R[3][1]
    /\ Len(Lines(Note.content)) = 3

\* C2: whenever summarize ran on a list R with a notification target
\* configured and no nonzero exit code in R (the empty list included),
\* exactly one notification was posted, it is the success variant, its body
\* states succeeded = len(R), and no piece of the body is a task name (the
\* body is a single line).
C2_SuccessNotification ==
    (Summarized /\ lark_reporter # None /\ FailedIdx(R) = {}) =>
        /\ Len(cur[1].posts) = 1
        /\ IsSuccessNote(Note)
        /\ ~IsFailureNote(Note)
        /\ HasField(Note.content, "succeeded ")
        /\ FieldAfter(Note.content, "succeeded ") = ToString(Len(R))
        /\ \A i \in 1..Len(Note.content) :
              Note.content[i] \notin Names \cup {"\n"}

C2_Witness ==
    /\ Summarized /\ Notified
    /\ Len(R) = 2
    /\ FailedIdx(R) = {}
    /\ IsSuccessNote(Note)

C2_WitnessEmpty ==
    /\ Summarized /\ Notified
    /\ R = <<>>
    /\ FieldAfter(Note.content, "succeeded ") = "0"

\* C3: if the reporter's post raises during summarize, the error is caught:
\* summarize returns normally and so does __call__.
C3_DeliveryFailureCaught ==
    (Summarized /\ cur[1].post_raised) =>
        /\ ~cur[1].raised
        /\ pc = "done"

\* C4: an orchestrator constructed without a notification target (url
\* absent or empty) makes no delivery attempt, whatever R is, while every
\* failed entry of R still gets its error log entry.
C4_NoTargetNoDelivery ==
    ~Truthy(lark_bot_url) =>
        /\ lark_reporter = None
        /\ \A i \in 1..Len(events) : events[i].e # "post"
        /\ Summarized =>
              /\ cur[1].posts = <<>>
              /\ ~cur[1].post_raised
              /\ Len(cur[1].log) = NumFailed(R)
              /\ \A k \in 1..NumFailed(R) : cur[1].log[k].level = "error"

C4_Witness ==
    /\ lark_bot_url = None
    /\ Summarized
    /\ NumFailed(R) = 2
    /\ Len(cur[1].log) = 2
    /\ pc = "done"

\* C5: for every list R the summary satisfies succeeded + len(failed) =
\* len(R); an entry is listed in failed iff its exit code is nonzero
\* (negative codes included) and counted as succeeded iff its code is 0.
C5_CountsAddUp ==
    Summarized =>
        /\ cur[1].failed_logs = FailedNamesOf(R)
        /\ Len(cur[1].failed_logs)
           = Cardinality({i \in 1..Len(R) : R[i][2] < 0 \/ R[i][2] > 0})
        /\ cur[1].num_succeeded # None =>
              /\ cur[1].num_succeeded[1] + Len(cur[1].failed_logs) = Len(R)
              /\ cur[1].num_succeeded[1]
                 = Cardinality({i \in 1..Len(R) : R[i][2] = 0})

C5_Witness ==
    /\ Summarized
    /\ cur[1].num_succeeded = <<1>>
    /\ Len(R) = 3
    /\ \E i \in 1..3 : R[i][2] < 0
    /\ \E i \in 1..3 : R[i][2] > 0

\* C6: if launch raises, __call__ ends with the error and summarize is never
\* entered in that run: no log entry, no summary, no notification.
C6_LaunchErrorPropagates ==
    (\E i \in 1..Len(events) : events[i].e = "launch_raise") =>
        /\ pc = "raised"
        /\ status = None
        /\ cur = None
        /\ \A i \in 1..Len(events) :
              events[i].e \notin {"summarize", "log", "post", "return"}

C6_Witness ==
    /\ pc = "raised"
    /\ status = None
    /\ Len(events) = 3
    /\ events[2].e = "launch_raise"
    /\ lark_reporter # None

\* C7: once launch has returned a list, whatever its exit codes, __call__
\* returns normally.
C7_TaskFailuresNeverRaise ==
    (status # None /\ pc # "summarizing") => pc = "done"

\* C8: summarize writes exactly one error-level log entry per entry of R
\* with a nonzero exit code, naming that task and its code, in the order of
\* R, and none for an entry with code 0; the number of log entries is the
\* failed count the notification reports.
C8_OneLogPerFailure ==
    Summarized =>
        /\ Len(cur[1].log) = NumFailed(R)
        /\ \A k \in 1..NumFailed(R) :
              LET entry == cur[1].log[k]
                  i == KthFailed(R, k)
              IN /\ entry.level = "error"
                 /\ entry.msg[1] = R[i][1]
                 /\ entry.msg[Len(entry.msg)] = ToString(R[i][2])
        /\ (Notified /\ IsFailureNote(Note)) =>
              /\ Note.title[2] = ToString(Len(cur[1].log))
              /\ FieldAfter(Lines(Note.content)[1], "failed ")
                 = ToString(Len(cur[1].log))
        /\ (Notified /\ IsSuccessNote(Note)) => cur[1].log = <<>>

C8_Witness ==
    /\ Summarized /\ Notified
    /\ R = <<<<"t1", 0>>, <<"t2", 137>>>>
    /\ Len(cur[1].log) = 1
    /\ cur[1].log[1].msg = <<"t2", " failed with code ", "137">>

\* What a summarize call produced, apart from how post ended.
Summary(eff) ==
    <<eff.status, eff.failed_logs, eff.num_succeeded, eff.posts, eff.log>>

\* C9: a second summarize call on the same list gives the same summary as
\* the first (failed names, counts, notification, log entries), and no
\* summarize call changes the list, the run configuration, the debug flag or
\* the notification target.
C9_Idempotent ==
    /\ [](prev # None => Summary(prev[1]) = Summary(cur[1]))
    /\ [][cur' # cur => (status' = status /\ config' = config)]_vars

C9_Witness ==
    /\ prev # None
    /\ Notified
    /\ NumFailed(R) = 2
    /\ Len(R) = 3

Kind(k) == {i \in 1..Len(events) : events[i].e = k}

\* What holds of every run, finished or not.
RunOrder ==
    /\ pc # "idle" =>
          /\ Cardinality(Kind("launch")) = 1
          /\ events[1] = Ev("launch", tasks)
    /\ Cardinality(Kind("summarize")) <= 1
    /\ \A i \in Kind("summarize") :
          /\ i = 3
          /\ events[2].e = "launch_return"
          /\ events[3].arg = events[2].arg
          /\ status = Some(events[3].arg)
    /\ \A i \in Kind("log") :
          /\ \A j \in Kind("summarize") : j < i
          /\ \A j \in Kind("post") : i < j
    /\ \A i \in Kind("post") : \A j \in Kind("summarize") : j < i
    /\ Cardinality(Kind("post")) <= 1

\* A finished run in which summarize ran once and delivery was attempted
\* once iff a target is configured.
SummarizedOnce ==
    /\ Cardinality(Kind("summarize")) = 1
    /\ Cardinality(Kind("post")) = IF lark_reporter # None THEN 1 ELSE 0

\* C10 as stated: in every run launch is invoked once with the task list
\* and completes before summarize, summarize is invoked exactly once with
\* the list launch returned, the log entries precede the notification, one
\* delivery is attempted when a target is configured and none otherwise,
\* and nothing is launched twice.
C10_EveryRunSummarizedOnce ==
    /\ RunOrder
    /\ pc \in {"done", "raised"} => SummarizedOnce

\* C10 as amended: the same, with "summarize is invoked exactly once" and
\* "exactly one delivery attempt when a target is configured" said of the
\* runs in which launch returned a list; a run in which launch raised has
\* neither.
C10_RunOrder ==
    /\ RunOrder
    /\ (pc \in {"done", "raised"} /\ status # None) => SummarizedOnce
    /\ (pc \in {"done", "raised"} /\ status = None) =>
          /\ Kind("summarize") = {}
          /\ Kind("post") = {}

C10_Witness ==
    /\ pc = "done"
    /\ Cardinality(Kind("log")) = 2
    /\ Cardinality(Kind("post")) = 1
    /\ Len(tasks) = 2

====
